---- MODULE Spec2Model ----
(***************************************************************************)
(* The croissant tour: the ratings service (the server actions             *)
(* upsertRatings, deleteRating, getUserRatings, deleteAllUserRatings,      *)
(* getGlobalStats, getAllUserRatings over the users and ratings tables)    *)
(* and the client component CroissantTourClientContent that keeps a local  *)
(* view of the places in step with the service by optimistic update and    *)
(* rollback.                                                               *)
(*                                                                         *)
(* Granularity.  Every `await sql` is one atomic step of the database;     *)
(* steps of different calls interleave freely.  A statement either runs or *)
(* fails (the storage is unavailable); a failed statement changes nothing. *)
(* React state is the committed state: a handler reads the `places` of the *)
(* latest render, and a render happens between any two events.             *)
(***************************************************************************)
EXTENDS Integers, Sequences, FiniteSets, Bags, TLC

\* ------------------------------------------------------------------ bounds
MaxUsers == 2
MaxPlaces == 2
MaxBatch == 2
MaxInflight == 2
MaxBrowsers == 2
MaxAddresses == 3
MaxRandom == 2

\* ------------------------------------------------------- program constants
\* CHECK (rating BETWEEN 1 AND 5)
MinRating == 1
MaxRating == 5
\* score: number | null -- the null of the local view
Null == 0

Users == 1..MaxUsers
Places == 1..MaxPlaces
\* the ratings a caller of the service hands in: the two ends of the valid
\* range and the first value outside it on either side
InputRatings == {MinRating - 1, MinRating, MaxRating, MaxRating + 1}
\* the score buttons of a place ([1, 2, 3, 4, 5].map), cut to the two ends
ScoreButtons == {MinRating, MaxRating}
\* the cookie of the browser that runs the client component
ClientUser == 1
\* the browsers, each with its cookie jar
Browsers == 1..MaxBrowsers
\* the first entry of x-forwarded-for, or 127.0.0.1
Addresses == 1..MaxAddresses
\* the values of Math.random().toString(36).substring(2, 10)
Randoms == 1..MaxRandom

VARIABLES
  users,        \* the users table: the set of ids
  ratings,      \* the ratings table: a bag of rows (the surrogate id and the
                \* timestamps of a row are left out; two rows with the same
                \* columns are two copies in the bag)
  places,       \* useState(initialPlaces): placeId -> [visited, score]
  globalStats,  \* useState(initialGlobalStats)
  inflight,     \* the calls under way, in the order they were issued
  last,         \* what the latest step did (observation only)
  streak,       \* consecutive completed setScore calls (observation only)
  cookies       \* browser -> the value of its croissant_user_id cookie

vars == <<users, ratings, places, globalStats, inflight, last, streak, cookies>>

\* ------------------------------------------------------------------ tables
Row(u, p, s) == [user_id |-> u, place_id |-> p, rating |-> s]

RowsOf(rs, u, p) == {r \in BagToSet(rs) : r.user_id = u /\ r.place_id = p}

RowsOfUser(rs, u) == {r \in BagToSet(rs) : r.user_id = u}

RowsOfPlace(rs, p) == {r \in BagToSet(rs) : r.place_id = p}

\* the part of a bag of rows on a set of rows
Restrict(rs, keep) == [r \in keep |-> rs[r]]

\* how many rows (copies counted) of a set of rows the table holds
Copies(rs, S) == BagCardinality(Restrict(rs, S))

\* a CHECK with the upper bound only (rating <= 5)
CheckRatingUpper(s) == s <= MaxRating

\* a CHECK with the lower bound only (rating >= 1)
CheckRatingLower(s) == s >= MinRating

\* rating INTEGER NOT NULL CHECK (rating BETWEEN 1 AND 5)
CheckRating(s) == s >= MinRating /\ s <= MaxRating

\* INSERT INTO users (id) VALUES (u) ON CONFLICT (id) DO NOTHING
EnsureUser(us, u) == us \cup {u}

\* a plain INSERT into a table without UNIQUE(user_id, place_id)
UpsertRowNoConflict(rs, u, p, s) == rs (+) SetToBag({Row(u, p, s)})

\* on conflict the stored rating is kept (DO NOTHING)
UpsertRowKeep(rs, u, p, s) ==
  IF RowsOf(rs, u, p) = {} THEN rs (+) SetToBag({Row(u, p, s)}) ELSE rs

\* on conflict the greater of the two ratings is stored (DO UPDATE SET rating
\* = GREATEST(ratings.rating, EXCLUDED.rating))
UpsertRowGreatest(rs, u, p, s) ==
  LET hit == RowsOf(rs, u, p)
      old == CHOOSE r \in hit : TRUE
  IN  IF hit = {}
        THEN rs (+) SetToBag({Row(u, p, s)})
        ELSE Restrict(rs, BagToSet(rs) \ hit)
               (+) [r \in {Row(u, p, IF old.rating > s THEN old.rating ELSE s)}
                      |-> Copies(rs, hit)]

\* INSERT INTO ratings ... ON CONFLICT (user_id, place_id) DO UPDATE SET rating
UpsertRow(rs, u, p, s) ==
  LET hit == RowsOf(rs, u, p)
  IN  IF hit = {}
        THEN rs (+) SetToBag({Row(u, p, s)})
        ELSE Restrict(rs, BagToSet(rs) \ hit)
               (+) [r \in {Row(u, p, s)} |-> Copies(rs, hit)]

\* a DELETE without the place (WHERE user_id = u)
DeleteRowAnyPlace(rs, u, p) ==
  Restrict(rs, BagToSet(rs) \ {r \in BagToSet(rs) : r.user_id = u})

\* a DELETE that spares the highest rating (... AND rating < 5)
DeleteRowBelowMax(rs, u, p) ==
  Restrict(rs, BagToSet(rs) \ {r \in RowsOf(rs, u, p) : r.rating < MaxRating})

\* a DELETE without the user (WHERE place_id = p)
DeleteRowAnyUser(rs, u, p) == Restrict(rs, BagToSet(rs) \ RowsOfPlace(rs, p))

\* DELETE FROM ratings WHERE user_id = u AND place_id = p
DeleteRow(rs, u, p) == Restrict(rs, BagToSet(rs) \ RowsOf(rs, u, p))

\* a DELETE without WHERE
DeleteEveryRow(rs, u) == EmptyBag

\* DELETE FROM ratings WHERE user_id = u
DeleteUserRows(rs, u) == Restrict(rs, BagToSet(rs) \ RowsOfUser(rs, u))

\* ----------------------------------------------------------------- queries
\* SELECT place_id, rating FROM ratings WHERE user_id = u, mapped to
\* {placeId, rating}; the order of the rows is not part of the result
SelectUserRatings(rs, u) ==
  [e \in {[placeId |-> r.place_id, rating |-> r.rating] : r \in RowsOfUser(rs, u)}
     |-> rs[Row(u, e.placeId, e.rating)]]

RECURSIVE SumRatings(_, _)
\* SUM(rating) over a set of rows of the table
SumRatings(rs, S) ==
  IF S = {} THEN 0
  ELSE LET r == CHOOSE x \in S : TRUE
       IN  r.rating * rs[r] + SumRatings(rs, S \ {r})

RECURSIVE GCD(_, _)
GCD(a, b) == IF b = 0 THEN a ELSE GCD(b, a % b)

\* a mean as the exact fraction sum / n in lowest terms (Number.parseFloat of
\* the numeric that AVG returns, up to the rounding of a double)
Mean(sum, n) == [num |-> sum \div GCD(sum, n), den |-> n \div GCD(sum, n)]

\* a GROUP BY row that counts the ratings that differ (COUNT(DISTINCT
\* rating))
GroupStatDistinct(rs, p) ==
  LET S == RowsOfPlace(rs, p)
  IN  [placeId |-> p, avgRating |-> Mean(SumRatings(rs, S), Copies(rs, S)),
       totalRatings |-> Cardinality({r.rating : r \in S})]

\* one row of GROUP BY place_id: AVG(rating), COUNT(*)
GroupStat(rs, p) ==
  LET S == RowsOfPlace(rs, p)
  IN  [placeId |-> p, avgRating |-> Mean(SumRatings(rs, S), Copies(rs, S)),
       totalRatings |-> Copies(rs, S)]

\* a.avgRating >= b.avgRating
AvgGeq(a, b) == a.avgRating.num * b.avgRating.den >= b.avgRating.num * a.avgRating.den

\* ORDER BY AVG(rating) ASC
OrderedAsc(q) == \A i \in 1..(Len(q) - 1) : AvgGeq(q[i + 1], q[i])

\* ORDER BY AVG(rating) DESC
OrderedDesc(q) == \A i \in 1..(Len(q) - 1) : AvgGeq(q[i], q[i + 1])

\* the results getGlobalStats can return on a table: one row per place_id
\* with a rating, by mean descending; the order among equal means is the
\* database's choice
GlobalStatsResults(rs) ==
  LET G == {GroupStat(rs, r.place_id) : r \in BagToSet(rs)}
  IN  {q \in [1..Cardinality(G) -> G] :
         /\ \A i, j \in DOMAIN q : i # j => q[i] # q[j]
         /\ OrderedDesc(q)}

\* users LEFT JOIN ratings: a user without ratings gives one row of nulls
\* (the order and created_at are not part of the model)
SelectAllUserRatings(us, rs) ==
  LET joined == {[userId |-> r.user_id, placeId |-> r.place_id, rating |-> r.rating] :
                   r \in {x \in BagToSet(rs) : x.user_id \in us}}
      alone == {[userId |-> u, placeId |-> Null, rating |-> Null] :
                   u \in {x \in us : RowsOfUser(rs, x) = {}}}
  IN  [e \in joined \cup alone |->
         IF e \in alone THEN 1 ELSE rs[Row(e.userId, e.placeId, e.rating)]]

\* ------------------------------------------------------------ calls, steps
NoPlaces == [p \in Places |-> [visited |-> FALSE, score |-> Null]]

\* an entry of a list that a caller hands to upsertRatings; what it holds is
\* drawn when the loop of the call reaches it, and has no effect before
Unread == [placeId |-> Null, rating |-> Null]

\* a call under way.  kind: who issued it ("api": a caller of the service
\* other than the component; else the handler of the component); op: the
\* server action; ratings: what upsertRatings still has to write; pc: the
\* statement it runs next; originalPlaces, originalGlobalStats: the
\* snapshots the handler took; stats: the answer of getGlobalStats on its
\* way to the component; written: how many ratings it has written;
\* overtakenBy (observation only): <<r>> when a handler issued later for the
\* same place has had its server action return before this one, r being the
\* rating that handler stored (Null: it deleted the rating); found
\* (observation only): the view the handler found when it was issued; later
\* (observation only): a handler was issued after this one, while its server
\* action could still throw; watched (observation only): the call is the
\* one whose end is looked for
Call(kind, op, u, p, batch, pc) ==
  [kind |-> kind, op |-> op, userId |-> u, placeId |-> p, ratings |-> batch,
   pc |-> pc,
   originalPlaces |-> IF kind = "api" THEN NoPlaces ELSE places,
   originalGlobalStats |-> IF kind = "handleClearAllData" THEN globalStats ELSE <<>>,
   stats |-> <<>>, written |-> 0, overtakenBy |-> <<>>,
   found |-> IF kind = "api" THEN NoPlaces ELSE places,
   later |-> FALSE, watched |-> FALSE]

IsClient(c) == c.kind # "api"

\* the statements that write the tables
WritePcs == {"ensureUser", "upsert", "delete", "deleteAll"}

\* call d can still write the rating of user u for place p
Touches(d, u, p) ==
  /\ d.pc \in WritePcs
  /\ d.userId = u
  /\ d.kind = "api" \/ d.op = "deleteAllUserRatings" \/ d.placeId = p

Remove(q, i) == SubSeq(q, 1, i - 1) \o SubSeq(q, i + 1, Len(q))

\* the calls under way when a handler issues call c, and c (observation
\* only: the handlers whose server action can still throw are marked)
Issue(q, c) ==
  Append([j \in DOMAIN q |->
            IF IsClient(q[j]) /\ q[j].pc \in WritePcs
              THEN [q[j] EXCEPT !.later = TRUE] ELSE q[j]], c)

\* what a step did.  status: what the server action reported to its caller
\* in this step ("ok", "error"; "none": it has not returned); failed: a
\* statement of the step hit a storage failure; outcome: how the handler of
\* the component ended in this step ("confirmed", "rolledback"; "none");
\* entry: the entry of the list the step was about; written: the ratings
\* the call had written before; rows, view: the ratings table and the local
\* view before the step; alone: no other call under way could write the
\* rating of the user for the place; latest: no handler was issued after
\* the one that ended; before: the view that handler found when it was
\* issued; overtakenBy, watched: as in the call
Obs(step, c, status, failed, outcome) ==
  [step |-> step, kind |-> c.kind, op |-> c.op, userId |-> c.userId,
   placeId |-> c.placeId, entry |-> Unread, written |-> c.written,
   score |-> Null, status |-> status,
   failed |-> failed, outcome |-> outcome, userRatings |-> EmptyBag,
   stats |-> <<>>, all |-> EmptyBag, rows |-> ratings, view |-> places,
   alone |-> Cardinality({j \in DOMAIN inflight :
                            Touches(inflight[j], c.userId, c.placeId)}) <= 1,
   latest |-> FALSE, before |-> NoPlaces, overtakenBy |-> <<>>,
   watched |-> c.watched]

NoCall == [kind |-> "none", op |-> "none", userId |-> Null, placeId |-> Null,
           written |-> 0, watched |-> FALSE]

NoStreak == [placeId |-> Null, score |-> Null, n |-> 0, open |-> FALSE]

\* cookieStore.get("croissant_user_id")?.value of a browser without the
\* cookie: undefined
NoToken == <<>>

\* createHash("sha256") of the address, the first 16 hex digits
HashPrefix(ip) == <<"sha256", ip>>

\* `${hash.digest("hex").substring(0, 16)}-${Math.random()...}`
NewToken(ip, rnd) == HashPrefix(ip) \o <<rnd>>

\* a resolution keyed by the address alone
ResolveByAddress(token, ip, rnd) == NewToken(ip, MaxRandom)

\* getUserId: the userId it returns for the cookie value token of the
\* request, the address ip and the random value rnd
ResolveUserId(token, ip, rnd) ==
  IF token = NoToken THEN NewToken(ip, rnd) ELSE token

Init ==
  /\ users = {}
  /\ ratings = EmptyBag
  /\ places = NoPlaces
  /\ globalStats = <<>>
  /\ inflight = <<>>
  /\ last = Obs("init", NoCall, "none", FALSE, "none")
  /\ streak = NoStreak
  /\ cookies = [b \in Browsers |-> NoToken]

\* a catch that reports the error and leaves the view as it is
ThrowNoRollback(i, step, failed, e) ==
  LET c == inflight[i]
  IN  /\ inflight' = Remove(inflight, i)
      /\ UNCHANGED <<places, globalStats>>
      /\ last' = [Obs(step, c, "error", failed,
                      IF IsClient(c) THEN "rolledback" ELSE "none")
                    EXCEPT !.entry = e, !.latest = ~c.later, !.before = c.found]
      /\ UNCHANGED cookies
      /\ streak' = NoStreak

\* the server action of call i threw: `throw error` in its catch.  A caller
\* of the service gets the error; the handler of the component runs its
\* catch: setPlaces(originalPlaces), and for the reset also
\* setGlobalStats(originalGlobalStats)
Throw(i, step, failed, e) ==
  LET c == inflight[i]
  IN  /\ inflight' = Remove(inflight, i)
      /\ places' = IF IsClient(c) THEN c.originalPlaces ELSE places
      /\ globalStats' = IF c.kind = "handleClearAllData"
                          THEN c.originalGlobalStats ELSE globalStats
      /\ last' = [Obs(step, c, "error", failed,
                      IF IsClient(c) THEN "rolledback" ELSE "none")
                    EXCEPT !.entry = e,
                           !.latest = ~c.later,
                           !.before = c.found]
      /\ UNCHANGED cookies
      /\ streak' = NoStreak

\* the server action of call i returned: a caller of the service is done;
\* the handler of the component goes on to refreshGlobalStats, the reset
\* first to its setPlaces(resetPlaces); nothing reads its snapshots and
\* arguments from here on, and the call forgets them
Return(i, step, e) ==
  LET c == inflight[i]
      next == [c EXCEPT !.pc = IF c.kind = "handleClearAllData" THEN "reset"
                               ELSE "selectStats",
                        !.op = "getGlobalStats", !.placeId = Null,
                        !.ratings = <<>>, !.written = 0,
                        !.originalPlaces = NoPlaces,
                        !.originalGlobalStats = <<>>, !.overtakenBy = <<>>,
                        !.found = NoPlaces, !.later = FALSE]
      stored == IF c.op = "upsertRatings" THEN e.rating ELSE Null
      overtakes(j) == /\ j < i
                      /\ IsClient(inflight[j])
                      /\ c.placeId # Null
                      /\ inflight[j].placeId = c.placeId
                      /\ inflight[j].pc \in WritePcs
  IN  /\ inflight' = IF IsClient(c)
                       THEN [j \in DOMAIN inflight |->
                               IF j = i THEN next
                               ELSE IF overtakes(j)
                                 THEN [inflight[j] EXCEPT !.overtakenBy = <<stored>>]
                               ELSE inflight[j]]
                       ELSE Remove(inflight, i)
      /\ last' = [Obs(step, c, "ok", FALSE, "none")
                    EXCEPT !.entry = e, !.overtakenBy = c.overtakenBy]
      /\ UNCHANGED cookies
      /\ streak' = IF c.kind = "setScore" /\ streak.open THEN streak ELSE NoStreak
      /\ UNCHANGED <<places, globalStats>>

\* upsertRatings of a handler of the component: INSERT INTO users ... ON
\* CONFLICT (id) DO NOTHING
EnsureUserStep(i) ==
  /\ i \in DOMAIN inflight
  /\ inflight[i].pc = "ensureUser"
  /\ \E fail \in BOOLEAN :
       IF fail
         THEN Throw(i, "ensureUser", TRUE, Unread) /\ UNCHANGED <<users, ratings>>
         ELSE /\ users' = EnsureUser(users, inflight[i].userId)
              /\ inflight' = [inflight EXCEPT ![i].pc = "upsert"]
              /\ last' = Obs("ensureUser", inflight[i], "none", FALSE, "none")
              /\ UNCHANGED cookies
              /\ streak' = IF inflight[i].kind = "setScore" /\ streak.open
                             THEN streak ELSE NoStreak
              /\ UNCHANGED <<ratings, places, globalStats>>

\* the entry that the loop of upsertRatings reaches in call c
EntriesAt(c) ==
  IF Head(c.ratings) = Unread
    THEN [placeId : Places, rating : InputRatings]
    ELSE {Head(c.ratings)}

\* upsertRatings: one turn of `for (const { placeId, rating } of ratings)`;
\* the statement fails on a storage failure, on a rating the CHECK refuses
\* and on a user_id that REFERENCES no row of users
UpsertStep(i) ==
  /\ i \in DOMAIN inflight
  /\ inflight[i].pc = "upsert"
  /\ LET c == inflight[i]
     IN  \E fail \in BOOLEAN, e \in EntriesAt(c) :
           IF fail \/ ~CheckRating(e.rating) \/ c.userId \notin users
             THEN /\ Throw(i, "upsert", fail, e)
                  /\ UNCHANGED <<users, ratings>>
             ELSE /\ ratings' = UpsertRow(ratings, c.userId, e.placeId, e.rating)
                  /\ users' = users
                  /\ IF Len(c.ratings) = 1
                       THEN Return(i, "upsert", e)
                       ELSE /\ inflight' = [inflight EXCEPT ![i].ratings = Tail(c.ratings),
                                                            ![i].written = @ + 1]
                            /\ last' = [Obs("upsert", c, "none", FALSE, "none")
                                          EXCEPT !.entry = e]
                            /\ UNCHANGED cookies
                            /\ streak' = NoStreak
                            /\ UNCHANGED <<places, globalStats>>

\* deleteRating of a handler of the component
DeleteStep(i) ==
  /\ i \in DOMAIN inflight
  /\ inflight[i].pc = "delete"
  /\ \E fail \in BOOLEAN :
       IF fail
         THEN Throw(i, "delete", TRUE, Unread) /\ UNCHANGED <<users, ratings>>
         ELSE /\ ratings' = DeleteRow(ratings, inflight[i].userId, inflight[i].placeId)
              /\ users' = users
              /\ Return(i, "delete", Unread)

\* deleteAllUserRatings of handleClearAllData
DeleteAllStep(i) ==
  /\ i \in DOMAIN inflight
  /\ inflight[i].pc = "deleteAll"
  /\ \E fail \in BOOLEAN :
       IF fail
         THEN Throw(i, "deleteAll", TRUE, Unread) /\ UNCHANGED <<users, ratings>>
         ELSE /\ ratings' = DeleteUserRows(ratings, inflight[i].userId)
              /\ users' = users
              /\ Return(i, "deleteAll", Unread)

\* handleClearAllData after its await: setPlaces(resetPlaces)
ResetStep(i) ==
  /\ i \in DOMAIN inflight
  /\ inflight[i].pc = "reset"
  /\ places' = NoPlaces
  /\ inflight' = [inflight EXCEPT ![i].pc = "selectStats"]
  /\ last' = Obs("reset", inflight[i], "none", FALSE, "none")
  /\ UNCHANGED cookies
  /\ streak' = NoStreak
  /\ UNCHANGED <<users, ratings, globalStats>>

\* a refreshGlobalStats whose getGlobalStatsAction() throws on a storage
\* failure, into the catch of the handler
StatsStepThrowing(i) ==
  /\ i \in DOMAIN inflight
  /\ inflight[i].pc = "selectStats"
  /\ \E fail \in BOOLEAN :
       IF fail
         THEN Throw(i, "selectStats", TRUE, Unread)
         ELSE /\ \E q \in GlobalStatsResults(ratings) :
                   /\ inflight' = [inflight EXCEPT ![i].pc = "setStats", ![i].stats = q]
                   /\ last' = [Obs("selectStats", inflight[i], "ok", FALSE, "none")
                                 EXCEPT !.stats = q]
              /\ UNCHANGED cookies
              /\ streak' = IF inflight[i].kind = "setScore" /\ streak.open
                             THEN streak ELSE NoStreak
              /\ UNCHANGED <<places, globalStats>>
  /\ UNCHANGED <<users, ratings>>

\* a refreshGlobalStats whose getGlobalStatsAction() never answers when its
\* query fails
StatsStepNoAnswer(i) ==
  /\ i \in DOMAIN inflight
  /\ inflight[i].pc = "selectStats"
  /\ \E fail \in BOOLEAN :
       \E q \in (IF fail THEN {<<>>} ELSE GlobalStatsResults(ratings)) :
         /\ inflight' = [inflight EXCEPT ![i].pc = IF fail THEN "lost" ELSE "setStats",
                                         ![i].stats = q]
         /\ last' = [Obs("selectStats", inflight[i], "ok", fail, "none")
                       EXCEPT !.stats = q]
  /\ UNCHANGED cookies
  /\ streak' = IF inflight[i].kind = "setScore" /\ streak.open THEN streak ELSE NoStreak
  /\ UNCHANGED <<users, ratings, places, globalStats>>

\* refreshGlobalStats: getGlobalStatsAction() runs its query; on a storage
\* failure its catch returns []
StatsStep(i) ==
  /\ i \in DOMAIN inflight
  /\ inflight[i].pc = "selectStats"
  /\ \E fail \in BOOLEAN :
       \E q \in (IF fail THEN {<<>>} ELSE GlobalStatsResults(ratings)) :
         /\ inflight' = [inflight EXCEPT ![i].pc = "setStats", ![i].stats = q]
         /\ last' = [Obs("selectStats", inflight[i], "ok", fail, "none")
                       EXCEPT !.stats = q]
  /\ UNCHANGED cookies
  /\ streak' = IF inflight[i].kind = "setScore" /\ streak.open THEN streak ELSE NoStreak
  /\ UNCHANGED <<users, ratings, places, globalStats>>

\* refreshGlobalStats: setGlobalStats(stats); the handler is done
\* (router.refresh() of the reset hands the mounted component new props,
\* which useState(initialPlaces) does not read again)
SetStatsStep(i) ==
  /\ i \in DOMAIN inflight
  /\ inflight[i].pc = "setStats"
  /\ globalStats' = inflight[i].stats
  /\ inflight' = Remove(inflight, i)
  /\ last' = Obs("setStats", inflight[i], "none", FALSE, "confirmed")
  /\ UNCHANGED cookies
  /\ streak' = IF inflight[i].kind = "setScore" /\ streak.open
                 THEN [streak EXCEPT !.n = @ + 1, !.open = FALSE]
                 ELSE NoStreak
  /\ UNCHANGED <<users, ratings, places>>

\* ---------------------------------------------------- the client component
\* isPending of the component's useTransition: an async action given to
\* startTransition is still running
isPending == \E i \in DOMAIN inflight : IsClient(inflight[i])

\* a toggleVisited that calls deleteRatingAction whenever the place holds no
\* score
toggleVisitedEager(id) ==
  /\ Len(inflight) < MaxInflight
  /\ LET placeToUpdate == places[id]
         newVisitedState == ~placeToUpdate.visited
         c == IF ~newVisitedState \/ placeToUpdate.score = Null
                THEN Call("toggleVisited", "deleteRating", ClientUser, id, <<>>, "delete")
                ELSE Call("toggleVisited", "upsertRatings", ClientUser, id,
                          <<[placeId |-> id, rating |-> placeToUpdate.score]>>,
                          "ensureUser")
     IN  /\ places' = [places EXCEPT ![id] =
                         [visited |-> newVisitedState,
                          score |-> IF newVisitedState THEN placeToUpdate.score ELSE Null]]
         /\ inflight' = Issue(inflight, c)
         /\ last' = Obs("toggleVisited", c, "none", FALSE, "none")
  /\ UNCHANGED cookies
  /\ streak' = NoStreak
  /\ UNCHANGED <<users, ratings, globalStats>>

\* a toggleVisited whose optimistic update keeps the score of a place it
\* un-marks (score: place.score)
toggleVisitedKeepScore(id) ==
  /\ Len(inflight) < MaxInflight
  /\ LET placeToUpdate == places[id]
         newVisitedState == ~placeToUpdate.visited
         c == IF ~newVisitedState
                THEN Call("toggleVisited", "deleteRating", ClientUser, id, <<>>, "delete")
              ELSE IF placeToUpdate.score # Null
                THEN Call("toggleVisited", "upsertRatings", ClientUser, id,
                          <<[placeId |-> id, rating |-> placeToUpdate.score]>>,
                          "ensureUser")
              ELSE [Call("toggleVisited", "getGlobalStats", ClientUser, Null, <<>>,
                         "selectStats")
                      EXCEPT !.originalPlaces = NoPlaces, !.found = NoPlaces]
     IN  /\ places' = [places EXCEPT ![id] =
                         [visited |-> newVisitedState, score |-> placeToUpdate.score]]
         /\ inflight' = Issue(inflight, c)
         /\ last' = Obs("toggleVisited", c, "none", FALSE, "none")
  /\ UNCHANGED cookies
  /\ streak' = NoStreak
  /\ UNCHANGED <<users, ratings, globalStats>>

\* toggleVisited(id): the optimistic setPlaces, then in the transition
\* deleteRatingAction when un-marking, upsertRatingsAction when marking a
\* place that holds a score, and refreshGlobalStats.  The controls of a
\* place stay usable while a call is under way: the earlier page
\* (onCheckedChange, onClick call the handler directly) never disables them,
\* and PlaceItem's own useTransition wraps a synchronous call
toggleVisited(id) ==
  /\ Len(inflight) < MaxInflight
  /\ LET placeToUpdate == places[id]
         newVisitedState == ~placeToUpdate.visited
         c == IF ~newVisitedState
                THEN Call("toggleVisited", "deleteRating", ClientUser, id, <<>>, "delete")
              ELSE IF placeToUpdate.score # Null
                THEN Call("toggleVisited", "upsertRatings", ClientUser, id,
                          <<[placeId |-> id, rating |-> placeToUpdate.score]>>,
                          "ensureUser")
              ELSE [Call("toggleVisited", "getGlobalStats", ClientUser, Null, <<>>,
                         "selectStats")
                      EXCEPT !.originalPlaces = NoPlaces, !.found = NoPlaces]
     IN  /\ places' = [places EXCEPT ![id] =
                         [visited |-> newVisitedState,
                          score |-> IF newVisitedState THEN placeToUpdate.score ELSE Null]]
         /\ inflight' = Issue(inflight, c)
         /\ last' = Obs("toggleVisited", c, "none", FALSE, "none")
  /\ UNCHANGED cookies
  /\ streak' = NoStreak
  /\ UNCHANGED <<users, ratings, globalStats>>

\* setScore(id, score) from a score button, which PlaceItem renders for a
\* visited place only: the optimistic setPlaces, then in the transition
\* deleteRatingAction when the score is the one the view holds,
\* upsertRatingsAction otherwise, and refreshGlobalStats
setScore(id, score) ==
  /\ Len(inflight) < MaxInflight
  /\ places[id].visited
  /\ LET placeToUpdate == places[id]
         newScore == IF placeToUpdate.score = score THEN Null ELSE score
         c == IF newScore = Null
                THEN Call("setScore", "deleteRating", ClientUser, id, <<>>, "delete")
                ELSE Call("setScore", "upsertRatings", ClientUser, id,
                          <<[placeId |-> id, rating |-> newScore]>>, "ensureUser")
     IN  /\ places' = [places EXCEPT ![id] =
                         [visited |-> IF newScore # Null THEN TRUE ELSE placeToUpdate.visited,
                          score |-> newScore]]
         /\ inflight' = Issue(inflight, c)
         /\ last' = [Obs("setScore", c, "none", FALSE, "none") EXCEPT !.score = score]
  /\ UNCHANGED cookies
  /\ streak' =
       IF inflight # <<>> THEN NoStreak
       ELSE IF streak.placeId = id /\ streak.score = score /\ streak.n \in {1, 2}
         THEN [streak EXCEPT !.open = TRUE]
       ELSE IF RowsOf(ratings, ClientUser, id) = {}
         THEN [placeId |-> id, score |-> score, n |-> 0, open |-> TRUE]
       ELSE NoStreak
  /\ UNCHANGED <<users, ratings, globalStats>>

\* handleClearAllData, confirmed; its button is disabled while isPending
handleClearAllData ==
  /\ Len(inflight) < MaxInflight
  /\ ~isPending
  /\ LET c == Call("handleClearAllData", "deleteAllUserRatings", ClientUser, Null,
                   <<>>, "deleteAll")
     IN  /\ inflight' = Append(inflight, c)
         /\ last' = Obs("handleClearAllData", c, "none", FALSE, "none")
  /\ places' = [p \in Places |-> [visited |-> FALSE, score |-> Null]]
  /\ UNCHANGED cookies
  /\ streak' = NoStreak
  /\ UNCHANGED <<users, ratings, globalStats>>

\* a derivation that leaves every place unvisited (visited: false)
PlacesWithUserDataUnvisited(userRatings) ==
  [p \in Places |->
     LET found == {ur \in BagToSet(userRatings) : ur.placeId = p}
     IN  IF found = {} THEN [visited |-> FALSE, score |-> Null]
         ELSE [visited |-> FALSE, score |-> (CHOOSE ur \in found : TRUE).rating]]

\* a derivation that drops the rating (score: null)
PlacesWithUserDataNoScore(userRatings) ==
  [p \in Places |->
     LET found == {ur \in BagToSet(userRatings) : ur.placeId = p}
     IN  IF found = {} THEN [visited |-> FALSE, score |-> Null]
         ELSE [visited |-> TRUE, score |-> Null]]

\* getInitialPlacesWithUserData: the view of the places derived from the
\* answer of getUserRatings
PlacesWithUserData(userRatings) ==
  [p \in Places |->
     LET found == {ur \in BagToSet(userRatings) : ur.placeId = p}
     IN  IF found = {} THEN [visited |-> FALSE, score |-> Null]
         ELSE [visited |-> TRUE, score |-> (CHOOSE ur \in found : TRUE).rating]]

\* CroissantTourPage: the page is loaded (again) while no handler is under
\* way; the component mounts with initialPlaces and initialGlobalStats read
\* by getUserRatings and getGlobalStats, each of which returns [] when its
\* query fails
CroissantTourPage ==
  /\ ~isPending
  /\ \E failRatings, failStats \in BOOLEAN :
       LET userRatings == IF failRatings THEN EmptyBag
                          ELSE SelectUserRatings(ratings, ClientUser)
       IN  \E q \in (IF failStats THEN {<<>>} ELSE GlobalStatsResults(ratings)) :
             /\ places' = PlacesWithUserData(userRatings)
             /\ globalStats' = q
             /\ last' = [Obs("load", [NoCall EXCEPT !.userId = ClientUser,
                                                   !.op = "getUserRatings"],
                             "ok", failRatings, "none")
                           EXCEPT !.userRatings = userRatings, !.stats = q]
  /\ UNCHANGED cookies
  /\ streak' = NoStreak
  /\ UNCHANGED <<users, ratings, inflight>>

\* ----------------------------------------------------------- the identity
\* getUserId() on a request of browser b from address ip: the cookie is
\* read, and when there is none the new id is stored in it
getUserId(b, ip, rnd) ==
  LET token == cookies[b]
      userId == ResolveUserId(token, ip, rnd)
  IN  /\ cookies' = IF token = NoToken THEN [cookies EXCEPT ![b] = userId]
                     ELSE cookies
      /\ last' = [Obs("getUserId", NoCall, "ok", FALSE, "none")
                    EXCEPT !.userId = userId,
                           !.entry = [browser |-> b, ip |-> ip]]
      /\ UNCHANGED <<users, ratings, places, globalStats, inflight, streak>>

\* the cookie of browser b is gone: maxAge has passed, or its user has
\* cleared it
ExpireCookie(b) ==
  /\ cookies[b] # NoToken
  /\ cookies' = [cookies EXCEPT ![b] = NoToken]
  /\ last' = [Obs("expire", NoCall, "none", FALSE, "none")
                EXCEPT !.entry = [browser |-> b, ip |-> Null]]
  /\ UNCHANGED <<users, ratings, places, globalStats, inflight, streak>>

\* ------------------------------------------- other callers of the service
\* the lists a caller hands to upsertRatings, of 0 to MaxBatch entries
Batches == {[k \in 1..n |-> Unread] : n \in 0..MaxBatch}

ApiCallOf(op, u, p) ==
  [kind |-> "api", op |-> op, userId |-> u, placeId |-> p, written |-> 0,
   watched |-> FALSE]

\* upsertRatings(batch) of the session with cookie u: `if (!ratings.length)
\* return`, else the call runs its INSERT INTO users and is under way with
\* its loop (the arrival of the call and its first statement are one step:
\* nothing can tell a call that has arrived from one that has not)
ApiUpsertRatings(u, batch) ==
  /\ IF batch = <<>>
       THEN /\ UNCHANGED <<users, inflight>>
            /\ last' = Obs("upsertRatings", ApiCallOf("upsertRatings", u, Null),
                           "ok", FALSE, "none")
       ELSE /\ Len(inflight) < MaxInflight
            /\ \E fail \in BOOLEAN :
                 IF fail
                   THEN /\ UNCHANGED <<users, inflight>>
                        /\ last' = Obs("ensureUser", ApiCallOf("upsertRatings", u, Null),
                                       "error", TRUE, "none")
                   ELSE /\ users' = EnsureUser(users, u)
                        /\ inflight' = Append(inflight,
                             Call("api", "upsertRatings", u, Null, batch, "upsert"))
                        /\ last' = Obs("ensureUser", ApiCallOf("upsertRatings", u, Null),
                                       "none", FALSE, "none")
  /\ UNCHANGED cookies
  /\ streak' = NoStreak
  /\ UNCHANGED <<ratings, places, globalStats>>

\* deleteRating(p) of the session with cookie u
ApiDeleteRating(u, p) ==
  /\ \E fail \in BOOLEAN :
       /\ ratings' = IF fail THEN ratings ELSE DeleteRow(ratings, u, p)
       /\ last' = Obs("deleteRating", ApiCallOf("deleteRating", u, p),
                      IF fail THEN "error" ELSE "ok", fail, "none")
  /\ UNCHANGED cookies
  /\ streak' = NoStreak
  /\ UNCHANGED <<users, places, globalStats, inflight>>

\* a deleteAllUserRatings() that also deletes the row of its user (DELETE
\* FROM users WHERE id = u)
ApiDeleteAllWithUser(u) ==
  /\ \E fail \in BOOLEAN :
       /\ ratings' = IF fail THEN ratings ELSE DeleteUserRows(ratings, u)
       /\ users' = IF fail THEN users ELSE users \ {u}
       /\ last' = Obs("deleteAllUserRatings",
                      ApiCallOf("deleteAllUserRatings", u, Null),
                      IF fail THEN "error" ELSE "ok", fail, "none")
  /\ UNCHANGED cookies
  /\ streak' = NoStreak
  /\ UNCHANGED <<places, globalStats, inflight>>

\* deleteAllUserRatings() of the session with cookie u
ApiDeleteAllUserRatings(u) ==
  /\ \E fail \in BOOLEAN :
       /\ ratings' = IF fail THEN ratings ELSE DeleteUserRows(ratings, u)
       /\ last' = Obs("deleteAllUserRatings",
                      ApiCallOf("deleteAllUserRatings", u, Null),
                      IF fail THEN "error" ELSE "ok", fail, "none")
  /\ UNCHANGED cookies
  /\ streak' = NoStreak
  /\ UNCHANGED <<users, places, globalStats, inflight>>

\* a getUserRatings() that creates the row of its user before it reads
ApiGetUserRatingsEnsuring(u) ==
  /\ \E fail \in BOOLEAN :
       /\ users' = IF fail THEN users ELSE EnsureUser(users, u)
       /\ last' = [Obs("getUserRatings", ApiCallOf("getUserRatings", u, Null),
                       "ok", fail, "none")
                     EXCEPT !.userRatings =
                       IF fail THEN EmptyBag ELSE SelectUserRatings(ratings, u)]
  /\ UNCHANGED cookies
  /\ streak' = NoStreak
  /\ UNCHANGED <<ratings, places, globalStats, inflight>>

\* getUserRatings() of the session with cookie u: `return []` in its catch
ApiGetUserRatings(u) ==
  /\ \E fail \in BOOLEAN :
       last' = [Obs("getUserRatings", ApiCallOf("getUserRatings", u, Null),
                    "ok", fail, "none")
                  EXCEPT !.userRatings =
                    IF fail THEN EmptyBag ELSE SelectUserRatings(ratings, u)]
  /\ UNCHANGED cookies
  /\ streak' = NoStreak
  /\ UNCHANGED <<users, ratings, places, globalStats, inflight>>

\* getGlobalStats() of any session: `return []` in its catch
ApiGetGlobalStats ==
  /\ \E fail \in BOOLEAN :
       \E q \in (IF fail THEN {<<>>} ELSE GlobalStatsResults(ratings)) :
         last' = [Obs("getGlobalStats", ApiCallOf("getGlobalStats", Null, Null),
                      "ok", fail, "none")
                    EXCEPT !.stats = q]
  /\ UNCHANGED cookies
  /\ streak' = NoStreak
  /\ UNCHANGED <<users, ratings, places, globalStats, inflight>>

\* getAllUserRatings() of the dashboard: `return []` in its catch
ApiGetAllUserRatings ==
  /\ \E fail \in BOOLEAN :
       last' = [Obs("getAllUserRatings",
                    ApiCallOf("getAllUserRatings", Null, Null),
                    "ok", fail, "none")
                  EXCEPT !.all =
                    IF fail THEN EmptyBag ELSE SelectAllUserRatings(users, ratings)]
  /\ UNCHANGED cookies
  /\ streak' = NoStreak
  /\ UNCHANGED <<users, ratings, places, globalStats, inflight>>

\* ------------------------------------------------------------------- specs
\* a step of a call under way
Step ==
  \E i \in 1..MaxInflight :
    \/ EnsureUserStep(i)
    \/ UpsertStep(i)
    \/ DeleteStep(i)
    \/ DeleteAllStep(i)
    \/ ResetStep(i)
    \/ StatsStep(i)
    \/ SetStatsStep(i)

\* what the user of the component does
Client ==
  \/ \E id \in Places : toggleVisited(id)
  \/ \E id \in Places, score \in ScoreButtons : setScore(id, score)
  \/ handleClearAllData
  \/ CroissantTourPage

\* what the sessions of the users do, each with its cookie
Api ==
  \/ \E u \in Users, batch \in Batches : ApiUpsertRatings(u, batch)
  \/ \E u \in Users, p \in Places : ApiDeleteRating(u, p)
  \/ \E u \in Users : ApiDeleteAllUserRatings(u)
  \/ \E u \in Users : ApiGetUserRatings(u)
  \/ ApiGetGlobalStats
  \/ ApiGetAllUserRatings

\* the service under the sessions of the users; none runs the component
NextStore ==
  \/ Api
  \/ \E i \in 1..MaxInflight : UpsertStep(i)

SpecStore == Init /\ [][NextStore]_vars

\* the place the user of SpecOnePlace works on
OnePlace == {p \in Places : \A q \in Places : p <= q}

\* the component as the only caller of the service, its user working on
\* one place with every score button
NextOnePlace ==
  \/ \E id \in OnePlace : toggleVisited(id)
  \/ \E id \in OnePlace, score \in ScoreButtons : setScore(id, score)
  \/ handleClearAllData
  \/ CroissantTourPage
  \/ Step

SpecOnePlace == Init /\ [][NextOnePlace]_vars

\* the score button the user of SpecOneButton presses
OneButton == {MinRating}

\* the component as the only caller of the service, its user working on
\* every place with one score button
NextOneButton ==
  \/ \E id \in Places : toggleVisited(id)
  \/ \E id \in Places, score \in OneButton : setScore(id, score)
  \/ handleClearAllData
  \/ CroissantTourPage
  \/ Step

SpecOneButton == Init /\ [][NextOneButton]_vars

\* a handler under way is singled out, to look for its end (observation
\* only: nothing of the program changes)
Watch(i) ==
  /\ i \in DOMAIN inflight
  /\ IsClient(inflight[i])
  /\ \A j \in DOMAIN inflight : ~inflight[j].watched
  /\ inflight' = [inflight EXCEPT ![i].watched = TRUE]
  /\ UNCHANGED <<users, ratings, places, globalStats, last, streak, cookies>>

\* the next step of the call at position i of the calls under way
CallStep(i) ==
  \/ EnsureUserStep(i)
  \/ UpsertStep(i)
  \/ DeleteStep(i)
  \/ DeleteAllStep(i)
  \/ ResetStep(i)
  \/ StatsStep(i)
  \/ SetStatsStep(i)

NextOnePlaceFair ==
  \/ NextOnePlace
  \/ \E i \in 1..MaxInflight : Watch(i)

\* SpecOnePlace where every service call responds and every continuation of
\* a handler runs: the next step of a call under way is taken at last
SpecOnePlaceFair ==
  /\ Init
  /\ [][NextOnePlaceFair]_vars
  /\ \A i \in 1..MaxInflight : WF_vars(CallStep(i))

\* the resolution of the identity of the requests of the browsers
NextIdentity ==
  \/ \E b \in Browsers, ip \in Addresses, rnd \in Randoms : getUserId(b, ip, rnd)
  \/ \E b \in Browsers : ExpireCookie(b)

SpecIdentity == Init /\ [][NextIdentity]_vars

\* the component and the sessions of the users
Next == Client \/ Api \/ Step \/ NextIdentity

Spec == Init /\ [][Next]_vars

\* ------------------------------------------------------------------ claims
\* the ratings stored for user u and place p
StoredRatings(u, p) == {r.rating : r \in RowsOf(ratings, u, p)}

\* the rows a table can hold for place p
PlaceRows(p) == {Row(u, p, s) : u \in Users, s \in MinRating..MaxRating}

RECURSIVE Tally(_, _, _)
\* over the rows S: how many the table holds, or, weighted, the sum of
\* their ratings
Tally(rs, S, weighted) ==
  IF S = {} THEN 0
  ELSE LET r == CHOOSE x \in S : TRUE
       IN  CopiesIn(r, rs) * (IF weighted THEN r.rating ELSE 1)
             + Tally(rs, S \ {r}, weighted)

\* C1: whatever upsertRatings, deleteRating and deleteAllUserRatings calls
\* the users have made, in whatever interleaving of their statements, the
\* ratings table holds at most one row for each (userId, placeId).
C1_OneRowPerPair ==
  \A u \in Users, p \in Places : Copies(ratings, RowsOf(ratings, u, p)) <= 1

\* C1 witness: an upsert has just hit the row of its (user, place) while
\* another upsertRatings call of the same user is under way.
C1_Witness ==
  /\ last.step = "upsert" /\ last.status = "ok"
  /\ RowsOf(last.rows, last.userId, last.entry.placeId) # {}
  /\ \E i \in DOMAIN inflight : inflight[i].userId = last.userId

\* C2 (as claimed): from no stored rating for (u, p), setScore(u, p, s)
\* calls that each complete before the next is issued leave Rated(s) after
\* the first, no rating after the second and Rated(s) after the third.
C2_ToggleThrice ==
  ~streak.open =>
    /\ streak.n = 1 => StoredRatings(ClientUser, streak.placeId) = {streak.score}
    /\ streak.n = 2 => StoredRatings(ClientUser, streak.placeId) = {}
    /\ streak.n = 3 => StoredRatings(ClientUser, streak.placeId) = {streak.score}

\* C3: when the deleteRating of a toggleVisited that un-marks a place has
\* succeeded, the table holds no row for the user and that place.
C3_UnvisitDeletes ==
  (last.kind = "toggleVisited" /\ last.step = "delete" /\ last.status = "ok")
    => RowsOf(ratings, last.userId, last.placeId) = {}

\* C3 witness: such a deleteRating has succeeded on a place that had a
\* rating stored.
C3_Witness ==
  /\ last.kind = "toggleVisited" /\ last.step = "delete" /\ last.status = "ok"
  /\ StoredRatings(last.userId, last.placeId) = {}
  /\ MaxRating \in {r.rating : r \in RowsOf(last.rows, last.userId, last.placeId)}

\* C4: a getGlobalStats whose query has run reports, for every place with
\* n >= 1 rows, exactly one entry, with totalRatings = n and avgRating =
\* (the sum of the ratings of those rows) / n, over the rows of all users.
C4_StatsAreCountAndMean ==
  (last.op = "getGlobalStats" /\ last.kind = "api" /\ ~last.failed) =>
    \A p \in Places :
      LET n == Tally(ratings, PlaceRows(p), FALSE)
          sum == Tally(ratings, PlaceRows(p), TRUE)
          at == {k \in DOMAIN last.stats : last.stats[k].placeId = p}
      IN  n >= 1 =>
            /\ Cardinality(at) = 1
            /\ \A k \in at :
                 /\ last.stats[k].totalRatings = n
                 /\ last.stats[k].avgRating.num * n = sum * last.stats[k].avgRating.den
                 /\ last.stats[k].avgRating.den > 0

\* C4 witness: getGlobalStats has reported a place that two users rated
\* with different scores.
C4_Witness ==
  /\ last.op = "getGlobalStats" /\ last.kind = "api" /\ ~last.failed
  /\ \E k \in DOMAIN last.stats :
       /\ last.stats[k].totalRatings = 2
       /\ last.stats[k].avgRating = [num |-> 3, den |-> 1]

\* C5: the upsert of a rating outside 1..5 ends the call with an error, and
\* getUserRatings of the user is what it was before that upsert.
C5_InvalidScoreRejected ==
  (last.step = "upsert" /\ last.entry.rating \notin MinRating..MaxRating) =>
    /\ last.status = "error"
    /\ SelectUserRatings(ratings, last.userId)
         = SelectUserRatings(last.rows, last.userId)

\* C5 witness: the upsert of 6, the first entry of its call, has been refused
\* for a user who has ratings.
C5_Witness ==
  /\ last.step = "upsert" /\ last.entry.rating = MaxRating + 1
  /\ last.written = 0 /\ last.status = "error" /\ ~last.failed
  /\ RowsOfUser(ratings, last.userId) # {}

\* C6: when the service call of a handler has failed and no handler was
\* issued after it, the local view is the view the handler found when it
\* was issued.
C6_RollbackRestoresView ==
  (last.outcome = "rolledback" /\ last.latest) => places = last.before

\* C6 witness: such a failure has put back a view in which a place is
\* visited, undoing what the view showed before the failure.
C6_Witness ==
  /\ last.outcome = "rolledback" /\ last.latest
  /\ places # last.view
  /\ \E p \in Places : places[p].visited

\* C7 (as claimed): when the service call of a toggleVisited or setScore on
\* place p has failed and the handler has rolled back, the local state of
\* every other place is what it was before the rollback.
C7_OtherPlacesKept ==
  (last.outcome = "rolledback" /\ last.kind \in {"toggleVisited", "setScore"}) =>
    \A q \in Places \ {last.placeId} : places[q] = last.view[q]

\* C8 (as claimed): when a handler was issued for a place while an earlier
\* one for the same place was under way, and the server actions of both have
\* succeeded, the stored rating is what the later handler stored.
C8_LastIntentWins ==
  (/\ last.kind \in {"toggleVisited", "setScore"}
   /\ last.step \in {"upsert", "delete"} /\ last.status = "ok"
   /\ last.overtakenBy # <<>>) =>
    StoredRatings(last.userId, last.placeId)
      = (IF last.overtakenBy[1] = Null THEN {} ELSE {last.overtakenBy[1]})

\* C9: when the server action of a setScore has succeeded and no other call
\* under way could write the rating of the user for the place, getUserRatings
\* of the user holds no entry for the place if the handler deleted the
\* rating, and else exactly one entry, with the new score.
C9_ReadReflectsSetScore ==
  (/\ last.kind = "setScore" /\ last.step \in {"upsert", "delete"}
   /\ last.status = "ok" /\ last.alone) =>
    LET got == SelectUserRatings(ratings, last.userId)
        at == {e \in BagToSet(got) : e.placeId = last.placeId}
    IN  IF last.step = "delete" THEN at = {}
        ELSE /\ at = {[placeId |-> last.placeId, rating |-> last.entry.rating]}
             /\ \A e \in at : CopiesIn(e, got) = 1

\* C9 witness: such a setScore has replaced a different stored score.
C9_Witness ==
  /\ last.kind = "setScore" /\ last.step = "upsert"
  /\ last.status = "ok" /\ last.alone
  /\ \E r \in RowsOf(last.rows, last.userId, last.placeId) :
       r.rating # last.entry.rating

\* C10 (as claimed): a server action that hits a storage failure reports an
\* error to its caller.
C10_FailuresReported == last.failed => last.status = "error"

\* C11: a deleteRating(p) that hits no storage failure, for a user who has
\* no rating for p, reports success and changes neither table.
C11_DeleteAbsentIsNoOp ==
  [][(/\ last'.step = "deleteRating" /\ ~last'.failed
      /\ RowsOf(ratings, last'.userId, last'.placeId) = {})
       => (last'.status = "ok" /\ users' = users /\ ratings' = ratings)]_vars

\* C11 witness: deleteRating(p) has succeeded for a user who had a rating
\* for another place and none for p.
C11_Witness ==
  /\ last.step = "deleteRating" /\ last.status = "ok"
  /\ RowsOf(last.rows, last.userId, last.placeId) = {}
  /\ RowsOfUser(last.rows, last.userId) # {}
  /\ ratings = last.rows

\* C12: when deleteAllUserRatings has succeeded for user u, getUserRatings
\* of u is empty, and getGlobalStats holds, for every place u had rated, one
\* entry with the count and the mean of the rows of the other users, or no
\* entry when only u had rated it.
C12_DeleteAllRemovesUser ==
  (last.step = "deleteAllUserRatings" /\ last.status = "ok") =>
    /\ SelectUserRatings(ratings, last.userId) = EmptyBag
    /\ \A q \in GlobalStatsResults(ratings) :
         \A p \in {r.place_id : r \in RowsOfUser(last.rows, last.userId)} :
           LET others == {r \in PlaceRows(p) : r.user_id # last.userId}
               n == Tally(last.rows, others, FALSE)
               sum == Tally(last.rows, others, TRUE)
               at == {k \in DOMAIN q : q[k].placeId = p}
           IN  /\ Cardinality(at) = (IF n = 0 THEN 0 ELSE 1)
               /\ \A k \in at :
                    /\ q[k].totalRatings = n
                    /\ q[k].avgRating.num * n = sum * q[k].avgRating.den

\* C12 witness: deleteAllUserRatings has succeeded for a user who had rated
\* every place, one of them rated by another user too and one by nobody
\* else.
C12_Witness ==
  /\ last.step = "deleteAllUserRatings" /\ last.status = "ok"
  /\ \A p \in Places : RowsOf(last.rows, last.userId, p) # {}
  /\ \E p \in Places : RowsOfPlace(ratings, p) # {}
  /\ \E p \in Places : RowsOfPlace(ratings, p) = {}

\* C13: the sequence of a getGlobalStats whose query has run is ordered by
\* avgRating descending, and holds exactly one entry for each place that has
\* a rating row and none for another place.
C13_StatsOrderedOnePerPlace ==
  (last.op = "getGlobalStats" /\ last.kind = "api" /\ ~last.failed) =>
    /\ \A k \in 1..(Len(last.stats) - 1) :
         last.stats[k].avgRating.num * last.stats[k + 1].avgRating.den
           >= last.stats[k + 1].avgRating.num * last.stats[k].avgRating.den
    /\ \A k, j \in DOMAIN last.stats :
         last.stats[k].placeId = last.stats[j].placeId => k = j
    /\ {last.stats[k].placeId : k \in DOMAIN last.stats}
         = {r.place_id : r \in BagToSet(ratings)}

\* C13 witness: getGlobalStats has returned two places with different means.
C13_Witness ==
  /\ last.op = "getGlobalStats" /\ last.kind = "api" /\ ~last.failed
  /\ Len(last.stats) = 2
  /\ last.stats[1].avgRating # last.stats[2].avgRating

\* C14: every stored rating row holds an integer rating in 1..5.
C14_StoredRatingsInRange ==
  \A r \in BagToSet(ratings) : r.rating \in Int /\ r.rating \in MinRating..MaxRating

\* C14 witness: the upsert of 0 has been refused while the table holds a
\* row with rating 1 and a row with rating 5.
C14_Witness ==
  /\ last.step = "upsert" /\ last.entry.rating = MinRating - 1
  /\ last.status = "error" /\ ~last.failed
  /\ {MinRating, MaxRating} \subseteq {r.rating : r \in BagToSet(ratings)}

\* C15: in the view of the component every place that holds a score is
\* visited.
C15_ScoreImpliesVisited ==
  \A p \in Places : places[p].score # Null => places[p].visited

\* C15 witness: a rollback has put back a view in which a place holds a
\* score, and another handler is still under way.
C15_Witness ==
  /\ last.outcome = "rolledback"
  /\ \E p \in Places : places[p].score # Null /\ last.view[p].score = Null
  /\ inflight # <<>>

\* C16: a request of a browser that holds the cookie resolves to the value
\* of the cookie, whatever the address of the request, and leaves the cookie
\* jars as they are.
C16_TokenDecidesUserId ==
  [][(/\ last'.step = "getUserId"
      /\ cookies[last'.entry.browser] # NoToken)
       => (/\ last'.userId = cookies[last'.entry.browser]
           /\ cookies' = cookies)]_vars

\* C16 witness: a request of a browser that holds the cookie has been
\* resolved to it, from another address than the one the cookie was made
\* from.
C16_Witness ==
  /\ last.step = "getUserId"
  /\ last.userId = cookies[last.entry.browser]
  /\ SubSeq(last.userId, 1, Len(HashPrefix(last.entry.ip)))
       # HashPrefix(last.entry.ip)

\* C17 (as claimed): an upsertRatings call that meets an entry with a rating
\* outside 1..5 has written no rating of its list before.
C17_BatchRejectedBeforeWrite ==
  (last.step = "upsert" /\ last.entry.rating \notin MinRating..MaxRating)
    => last.written = 0

\* C18 (as claimed): a setScore(p, s) issued while nothing else is under way
\* calls deleteRating exactly when s is the rating stored for the user and
\* p, and upsertRatings otherwise.
C18_ToggleOnStoredScore ==
  (last.step = "setScore" /\ Len(inflight) = 1) =>
    (last.op = "deleteRating"
       <=> StoredRatings(ClientUser, last.placeId) = {last.score})

\* C19 (as claimed): with the component as the only writer, whenever no
\* call is under way the score of every place in the view is null when the
\* user has no rating row for the place and is the stored rating otherwise.
C19_ViewAgreesWithStore ==
  inflight = <<>> =>
    \A p \in Places :
      StoredRatings(ClientUser, p)
        = (IF places[p].score = Null THEN {} ELSE {places[p].score})

\* C20: a toggleVisited that marks a place without a score as visited calls
\* neither upsertRatings nor deleteRating: its call is a getGlobalStats, no
\* getGlobalStats under way has a statement that writes, and the ratings
\* table is as it was.
C20_VisitWithoutScoreWritesNothing ==
  /\ (/\ last.step = "toggleVisited"
      /\ \E p \in Places : /\ ~last.view[p].visited /\ last.view[p].score = Null
                           /\ places[p].visited)
       => /\ last.op = "getGlobalStats"
          /\ inflight[Len(inflight)].pc \notin WritePcs
          /\ ratings = last.rows
  /\ \A i \in DOMAIN inflight :
       inflight[i].op = "getGlobalStats" => inflight[i].pc \notin WritePcs

\* C20 witness: a place has been marked as visited by a toggleVisited that
\* issued a getGlobalStats only, on a store that holds ratings.
C20_Witness ==
  /\ last.step = "toggleVisited" /\ last.op = "getGlobalStats"
  /\ \E p \in Places : ~last.view[p].visited /\ places[p].visited
                       /\ places[p].score = Null
  /\ ratings # EmptyBag

\* C21: an upsert that has run leaves one row for its (userId, placeId), and
\* the row holds the rating of that upsert, whichever of the upserts on the
\* key was issued first.
C21_LastCommitWins ==
  (last.step = "upsert" /\ last.status # "error") =>
    LET hit == RowsOf(ratings, last.userId, last.entry.placeId)
    IN  /\ hit = {Row(last.userId, last.entry.placeId, last.entry.rating)}
        /\ Copies(ratings, hit) = 1

\* C21 witness: the upsert of a handler has run after the upsert of a
\* handler issued later for the same place, and has replaced the rating
\* that one stored.
C21_Witness ==
  /\ last.step = "upsert" /\ last.status = "ok"
  /\ last.overtakenBy # <<>>
  /\ last.overtakenBy[1] \notin {Null, last.entry.rating}
  /\ StoredRatings(last.userId, last.entry.placeId) = {last.entry.rating}
  /\ {r.rating : r \in RowsOf(last.rows, last.userId, last.entry.placeId)}
       = {last.overtakenBy[1]}

\* C22: the view that a load of the page mounts, getUserRatings having run
\* its query, shows a place as visited exactly when the ratings table holds
\* a row of the user for it, with the stored rating as its score, and null
\* as the score of every other place.
C22_LoadDerivesView ==
  (last.step = "load" /\ ~last.failed) =>
    \A p \in Places :
      /\ places[p].visited <=> RowsOf(ratings, ClientUser, p) # {}
      /\ StoredRatings(ClientUser, p)
           = (IF places[p].score = Null THEN {} ELSE {places[p].score})

\* C22 witness: a load has mounted a rated place that the view before it
\* showed as not visited.
C22_Witness ==
  /\ last.step = "load" /\ ~last.failed
  /\ \E p \in Places : /\ ~last.view[p].visited
                       /\ places[p].visited
                       /\ places[p].score \in StoredRatings(ClientUser, p)

\* C23 (as claimed): when a call of the service by the session of user u has
\* returned, the users table holds a row with id u.
C23_UserRowOnFirstContact ==
  (last.kind = "api" /\ last.userId # Null /\ last.status = "ok")
    => last.userId \in users

\* the steps of the service that are a read
ReadSteps == {"getUserRatings", "getGlobalStats", "getAllUserRatings"}

\* C24: a getUserRatings, getGlobalStats or getAllUserRatings, whether its
\* query runs or fails, leaves the users table and the ratings table as
\* they were.
C24_ReadsChangeNothing ==
  [][last'.step \in ReadSteps => (users' = users /\ ratings' = ratings)]_vars

\* C24 witness: a read has failed on a store that holds users and ratings,
\* which it has left as they were.
C24_Witness ==
  /\ last.step \in ReadSteps
  /\ last.failed
  /\ users # {} /\ ratings # EmptyBag /\ last.rows = ratings

\* the steps of the service that write the ratings of a user
WriteSteps == {"ensureUser", "upsert", "upsertRatings", "deleteRating",
               "deleteAllUserRatings"}

\* C25: a step of upsertRatings, deleteRating or deleteAllUserRatings of
\* user u leaves what getUserRatings returns for every other user as it
\* was, and a deleteRating(p) also leaves the rows of u for every other
\* place as they were.
C25_UserIsolation ==
  /\ last.step \in WriteSteps =>
       \A v \in Users \ {last.userId} :
         SelectUserRatings(ratings, v) = SelectUserRatings(last.rows, v)
  /\ last.step = "deleteRating" =>
       \A q \in Places \ {last.placeId} :
         LET kept == RowsOf(last.rows, last.userId, q)
         IN  /\ RowsOf(ratings, last.userId, q) = kept
             /\ Restrict(ratings, kept) = Restrict(last.rows, kept)

\* C25 witness: deleteRating(p) has removed the rating of its user for p
\* while the user held a rating for another place and another user held one
\* for p.
C25_Witness ==
  /\ last.step = "deleteRating" /\ last.status = "ok"
  /\ RowsOf(last.rows, last.userId, last.placeId) # {}
  /\ RowsOf(ratings, last.userId, last.placeId) = {}
  /\ \E q \in Places \ {last.placeId} : RowsOf(ratings, last.userId, q) # {}
  /\ \E v \in Users \ {last.userId} : RowsOf(ratings, v, last.placeId) # {}

\* C26: when the server action of a toggleVisited or setScore has returned
\* and the query of the refreshGlobalStats after it fails, the handler does
\* not roll back: the view and the ratings table are as they were before
\* the refresh, the handler goes on to its setGlobalStats, and after a
\* setScore issued while nothing else was under way the score of the place
\* in the view is the stored rating.
C26_FailedRefreshKeepsView ==
  (/\ last.step = "selectStats" /\ last.failed
   /\ last.kind \in {"toggleVisited", "setScore"}) =>
    /\ places = last.view
    /\ ratings = last.rows
    /\ last.outcome = "none"
    /\ \E i \in DOMAIN inflight :
         inflight[i].kind = last.kind /\ inflight[i].pc = "setStats"
    /\ (streak.open /\ Len(inflight) = 1) =>
         StoredRatings(ClientUser, streak.placeId)
           = (IF places[streak.placeId].score = Null THEN {}
              ELSE {places[streak.placeId].score})

\* C26 witness: the refresh of a setScore that stored a rating has failed,
\* and the view still shows that rating.
C26_Witness ==
  /\ last.step = "selectStats" /\ last.failed /\ last.kind = "setScore"
  /\ streak.open /\ Len(inflight) = 1
  /\ places[streak.placeId].score = streak.score
  /\ StoredRatings(ClientUser, streak.placeId) = {streak.score}
  /\ places = last.view

\* C27 (as claimed): with the component as the only writer, whenever no
\* call is under way, the last of them having ended with the setGlobalStats
\* of a refresh whose query returned rows, the global stats of the view are
\* what getGlobalStats returns on the ratings table as it is.
C27_StatsViewIsCurrent ==
  (inflight = <<>> /\ last.step = "setStats" /\ globalStats # <<>>)
    => globalStats \in GlobalStatsResults(ratings)

\* C28: after every step the user_id of every row of the ratings table is
\* the id of a row of the users table, and the users table holds every row
\* it held before the step.
C28_ReferentialIntegrity ==
  [][/\ users \subseteq users'
     /\ \A r \in BagToSet(ratings') : r.user_id \in users']_vars

\* C28 witness: deleteAllUserRatings has removed the ratings of a user, whose
\* row the users table still holds, while another user holds ratings.
C28_Witness ==
  /\ last.step = "deleteAllUserRatings" /\ last.status = "ok"
  /\ RowsOfUser(last.rows, last.userId) # {}
  /\ RowsOfUser(ratings, last.userId) = {}
  /\ last.userId \in users
  /\ \E v \in Users \ {last.userId} : RowsOfUser(ratings, v) # {} /\ v \in users

\* a handler under way is the one whose end is looked for
Watching == \E i \in DOMAIN inflight : inflight[i].watched

\* the calls under way leave room for one more (the bound of the model)
Room == Len(inflight) < MaxInflight

C30_ToggleNeverUpserts ==
  /\ \A p \in Places : ~places[p].visited => places[p].score = Null
  /\ last.step = "toggleVisited" =>
       /\ last.op \in {"deleteRating", "getGlobalStats"}
       /\ last.op = "deleteRating" <=>
            \E p \in Places : last.view[p].visited /\ ~places[p].visited
  /\ \A i \in DOMAIN inflight :
       inflight[i].kind = "toggleVisited" =>
         /\ inflight[i].op \in {"deleteRating", "getGlobalStats"}
         /\ inflight[i].pc \in {"delete", "selectStats", "setStats"}

\* C30 witness: a toggleVisited has marked as visited a place for which the
\* user holds a stored rating that the view did not show, and has called no
\* server action that writes.
C30_Witness ==
  /\ last.step = "toggleVisited" /\ last.op = "getGlobalStats"
  /\ \E p \in Places : /\ ~last.view[p].visited /\ places[p].visited
                       /\ RowsOf(ratings, ClientUser, p) # {}

====
